---- MODULE Spec2Model ----
(***************************************************************************)
(* A model of the JSON-like lexer (src/src/lexer.rs), the recursive        *)
(* descent parser (src/src/parser.rs) and the pipeline that joins them     *)
(* (src/src/main.rs).                                                      *)
(*                                                                         *)
(* A character is a one-character string, a text a sequence of characters. *)
(* The specifications share the variables:                                 *)
(*   Spec            Lexer::tokenize on a text;                            *)
(*   SpecParser      Parser::parse on the tokens of an arbitrary iterator; *)
(*   SpecParserLive  the same, with every call running to its end;         *)
(*   SpecMain        main: tokenize, then parse the tokens.                *)
(***************************************************************************)
EXTENDS Integers, Sequences, FiniteSets, TLC

VARIABLES
    input,          \* lexer: the text handed to Lexer::new
    cpos,           \* lexer: characters of input already taken from self.chars
    tokens,         \* lexer: the Vec<Token> tokenize is building
    lstatus,        \* lexer: "idle" | "scanning" | "returned" | "panicked"
    overflowChecks, \* build: TRUE when integer overflow panics (debug profile)
    iter,           \* parser: tokens the underlying iterator has yielded so far
    iterDone,       \* parser: the underlying iterator is known to end after iter
    pos,            \* parser: tokens consumed by self.next()
    stack,          \* parser: the active parse_object/parse_array calls, outermost first
    value,          \* parser: the local `value` of parse (NoValue until parse_val returns)
    pstatus,        \* parser: "idle" | "running" | "ok" | "err"
    error,          \* parser: the Err message ("" when none)
    tree            \* SpecMain: the value tree the text was written from

vars == <<input, cpos, tokens, lstatus, overflowChecks,
          iter, iterDone, pos, stack, value, pstatus, error, tree>>

lexVars == <<input, cpos, tokens, lstatus, overflowChecks>>
parVars == <<iter, iterDone, pos, stack, value, pstatus, error>>

(***************************************************************************)
(* Bounds of the model.                                                    *)
(***************************************************************************)
MaxFrags == 3
MaxTokens == 8
MaxNodes == 3

(***************************************************************************)
(* i32                                                                     *)
(***************************************************************************)
I32Max == 2147483647
I32Min == -I32Max - 1

\* a + b for i32 a, b with two's complement wrap-around (release profile).
\* No intermediate result leaves the i32 range.
WrapAdd(a, b) ==
    IF b > 0 /\ a > I32Max - b THEN ((a - I32Max) - 1) + ((b - I32Max) - 1)
    ELSE IF b < 0 /\ a < I32Min - b THEN ((a + I32Max) + 1) + ((b + I32Max) + 1)
    ELSE a + b

\* a * 10 with wrap-around, by wrapping additions: 10a = 8a + 2a.
WrapMul10(a) ==
    LET a2 == WrapAdd(a, a)
        a4 == WrapAdd(a2, a2)
        a8 == WrapAdd(a4, a4)
    IN  WrapAdd(a8, a2)

\* number * 10 + digit leaves the i32 range (at the multiplication or the addition).
Overflows(number, digit) ==
    \/ number > I32Max \div 10
    \/ number < -(I32Max \div 10)
    \/ number * 10 > I32Max - digit

(***************************************************************************)
(* Characters                                                              *)
(***************************************************************************)
Quote == "\""
NoChar == ""

Digits == {"0", "1", "2", "3", "4", "5", "6", "7", "8", "9"}

\* char::to_digit(10)
ToDigit(ch) ==
    CASE ch = "0" -> 0 [] ch = "1" -> 1 [] ch = "2" -> 2 [] ch = "3" -> 3
      [] ch = "4" -> 4 [] ch = "5" -> 5 [] ch = "6" -> 6 [] ch = "7" -> 7
      [] ch = "8" -> 8 [] ch = "9" -> 9

IsDigit(ch) == ch \in Digits

\* char::is_whitespace, on the characters the model's texts use.
IsWhitespace(ch) == ch \in {" ", "\t", "\n", "\r"}

AsciiLetters ==
    {"a", "b", "c", "d", "e", "f", "g", "h", "i", "j", "k", "l", "m",
     "n", "o", "p", "q", "r", "s", "t", "u", "v", "w", "x", "y", "z",
     "A", "B", "C", "D", "E", "F", "G", "H", "I", "J", "K", "L", "M",
     "N", "O", "P", "Q", "R", "S", "T", "U", "V", "W", "X", "Y", "Z"}

\* char::is_ascii_alphabetic
IsAsciiAlphabetic(ch) == ch \in AsciiLetters

Punctuation == {"+", "-", "*", "/", "{", "}", "[", "]", "(", ")", ":", ","}

KeywordStart == {"t", "f", "n"}

(***************************************************************************)
(* Token                                                                   *)
(***************************************************************************)
Tok(kind, n, s, b, c) == [kind |-> kind, n |-> n, s |-> s, b |-> b, c |-> c]

TNumber(n) == Tok("Number", n, <<>>, FALSE, NoChar)
TString(s) == Tok("String", 0, s, FALSE, NoChar)
TBoolean(b) == Tok("Boolean", 0, <<>>, b, NoChar)
TUnknown(c) == Tok("Unknown", 0, <<>>, FALSE, c)
TPlain(kind) == Tok(kind, 0, <<>>, FALSE, NoChar)

TNull == TPlain("Null")
TComma == TPlain("Comma")
TColon == TPlain("Colon")
TLBraces == TPlain("LBraces")
TRBraces == TPlain("RBraces")
TLBracket == TPlain("LBracket")
TRBracket == TPlain("RBracket")

\* next_token's one-character arms.
PunctToken(ch) ==
    CASE ch = "+" -> TPlain("Plus")
      [] ch = "-" -> TPlain("Minus")
      [] ch = "*" -> TPlain("Multiply")
      [] ch = "/" -> TPlain("Divide")
      [] ch = "{" -> TLBraces
      [] ch = "}" -> TRBraces
      [] ch = "[" -> TLBracket
      [] ch = "]" -> TRBracket
      [] ch = "(" -> TPlain("LParenthesis")
      [] ch = ")" -> TPlain("RParenthesis")
      [] ch = ":" -> TColon
      [] ch = "," -> TComma

(***************************************************************************)
(* Lexer                                                                   *)
(*                                                                         *)
(* The scanning functions take the text, the number of characters already  *)
(* taken from it, and give [tok, pos, panic]: the token, the characters    *)
(* taken afterwards, and whether the call panicked instead of returning.   *)
(***************************************************************************)
Scan(tok, p, panic) == [tok |-> tok, pos |-> p, panic |-> panic]

\* The whitespace loop of next_token: the characters taken once every leading
\* whitespace character is skipped (the text's length when nothing else is left).
RECURSIVE SkipWhitespace(_, _)
SkipWhitespace(chars, p) ==
    IF p < Len(chars) /\ IsWhitespace(chars[p + 1])
    THEN SkipWhitespace(chars, p + 1)
    ELSE p

\* read_number's loop, with `number` accumulated so far.
RECURSIVE ReadNumber(_, _, _, _)
ReadNumber(chars, number, p, checks) ==
    IF p < Len(chars) /\ IsDigit(chars[p + 1])
    THEN LET digit == ToDigit(chars[p + 1]) IN
         IF Overflows(number, digit)
         THEN IF checks
              THEN Scan(TNumber(number), p, TRUE)
              ELSE ReadNumber(chars, WrapAdd(WrapMul10(number), digit), p + 1, checks)
         ELSE ReadNumber(chars, number * 10 + digit, p + 1, checks)
    ELSE Scan(TNumber(number), p, FALSE)

\* Mutant of UnclosedString: the text's end closes the string.
UnclosedStringPartial(content) == TString(content)

\* What read_string gives when the text ends before a closing quote.
UnclosedString(content) == TUnknown(Quote)

\* read_string's loop, with `content` accumulated so far.
RECURSIVE ReadString(_, _, _)
ReadString(chars, content, p) ==
    IF p >= Len(chars)
    THEN Scan(UnclosedString(content), p, FALSE)
    ELSE IF chars[p + 1] = Quote
         THEN Scan(TString(content), p + 1, FALSE)
         ELSE ReadString(chars, Append(content, chars[p + 1]), p + 1)

\* Mutant of KeywordToken: the buffer need only start with the keyword.
KeywordTokenPrefix(buf, first) ==
    CASE Len(buf) >= 4 /\ SubSeq(buf, 1, 4) = <<"t", "r", "u", "e">> -> TBoolean(TRUE)
      [] Len(buf) >= 5 /\ SubSeq(buf, 1, 5) = <<"f", "a", "l", "s", "e">> -> TBoolean(FALSE)
      [] Len(buf) >= 4 /\ SubSeq(buf, 1, 4) = <<"n", "u", "l", "l">> -> TNull
      [] OTHER -> TUnknown(first)

\* The final match of read_keyword on the buffer.
KeywordToken(buf, first) ==
    CASE buf = <<"t", "r", "u", "e">> -> TBoolean(TRUE)
      [] buf = <<"f", "a", "l", "s", "e">> -> TBoolean(FALSE)
      [] buf = <<"n", "u", "l", "l">> -> TNull
      [] OTHER -> TUnknown(first)

\* read_keyword's loop, with `buf` accumulated so far.
RECURSIVE ReadKeyword(_, _, _)
ReadKeyword(chars, buf, p) ==
    IF p < Len(chars) /\ IsAsciiAlphabetic(chars[p + 1])
    THEN ReadKeyword(chars, Append(buf, chars[p + 1]), p + 1)
    ELSE Scan(KeywordToken(buf, buf[1]), p, FALSE)

\* next_token's match on the first character after the whitespace; q characters
\* are taken once next_char is.
Dispatch(chars, next_char, q, checks) ==
    CASE next_char \in Punctuation -> Scan(PunctToken(next_char), q, FALSE)
      [] IsDigit(next_char) -> ReadNumber(chars, ToDigit(next_char), q, checks)
      [] next_char = Quote -> ReadString(chars, <<>>, q)
      [] next_char \in KeywordStart -> ReadKeyword(chars, <<next_char>>, q)
      [] OTHER -> Scan(TUnknown(next_char), q, FALSE)

\* Mutant of Push: the sentinel of an unterminated string replaces the tokens so far.
PushDiscarding(ts, tok) == IF tok = TUnknown(Quote) THEN <<tok>> ELSE Append(ts, tok)

\* tokens.push(token)
Push(ts, tok) == Append(ts, tok)

\* The first character next_token matches on (NoChar when only whitespace is left).
NextChar(chars, p) ==
    LET q == SkipWhitespace(chars, p)
    IN  IF q < Len(chars) THEN chars[q + 1] ELSE NoChar

\* The arm of next_token's match that takes next_char.
Arm(next_char) ==
    CASE next_char \in Punctuation -> "punctuation"
      [] IsDigit(next_char) -> "number"
      [] next_char = Quote -> "string"
      [] next_char \in KeywordStart -> "keyword"
      [] OTHER -> "unknown"

\* One round of tokenize's loop in which next_token's match takes the arm `arm`.
LexStep(arm) ==
    /\ lstatus = "scanning"
    /\ LET q == SkipWhitespace(input, cpos)
           ch == NextChar(input, cpos)
       IN  /\ ch # NoChar
           /\ Arm(ch) = arm
           /\ LET r == Dispatch(input, ch, q + 1, overflowChecks)
              IN  IF r.panic
                  THEN /\ lstatus' = "panicked"
                       /\ cpos' = r.pos
                       /\ UNCHANGED tokens
                  ELSE /\ tokens' = Push(tokens, r.tok)
                       /\ cpos' = r.pos
                       /\ UNCHANGED lstatus
    /\ UNCHANGED <<input, overflowChecks>>

LexPunct == LexStep("punctuation") /\ UNCHANGED <<parVars, tree>>
LexNumber == LexStep("number") /\ UNCHANGED <<parVars, tree>>
LexString == LexStep("string") /\ UNCHANGED <<parVars, tree>>
LexKeyword == LexStep("keyword") /\ UNCHANGED <<parVars, tree>>
LexUnknown == LexStep("unknown") /\ UNCHANGED <<parVars, tree>>

\* next_token gives None: the loop of tokenize ends and tokens is returned.
LexEnd ==
    /\ lstatus = "scanning"
    /\ NextChar(input, cpos) = NoChar
    /\ lstatus' = "returned"
    /\ cpos' = Len(input)
    /\ UNCHANGED <<input, tokens, overflowChecks, parVars, tree>>

LexNext == LexPunct \/ LexNumber \/ LexString \/ LexKeyword \/ LexUnknown \/ LexEnd

\* tokenize as a function of the text: [tokens, panic].
RECURSIVE Tokenize(_, _, _, _)
Tokenize(chars, p, ts, checks) ==
    LET q == SkipWhitespace(chars, p) IN
    IF q >= Len(chars)
    THEN [tokens |-> ts, panic |-> FALSE]
    ELSE LET r == Dispatch(chars, chars[q + 1], q + 1, checks) IN
         IF r.panic
         THEN [tokens |-> ts, panic |-> TRUE]
         ELSE Tokenize(chars, r.pos, Push(ts, r.tok), checks)

(***************************************************************************)
(* Type: the parsed value.  An Object keeps its pairs as two sequences of  *)
(* equal length, keys[i] with items[i]; an Array keeps its elements in     *)
(* items.                                                                  *)
(***************************************************************************)
Val(tag, n, s, b, keys, items) ==
    [tag |-> tag, n |-> n, s |-> s, b |-> b, keys |-> keys, items |-> items]

VNumber(n) == Val("Number", n, <<>>, FALSE, <<>>, <<>>)
VString(s) == Val("String", 0, s, FALSE, <<>>, <<>>)
VBoolean(b) == Val("Boolean", 0, <<>>, b, <<>>, <<>>)
VNull == Val("Null", 0, <<>>, FALSE, <<>>, <<>>)
VArray(items) == Val("Array", 0, <<>>, FALSE, <<>>, items)
VObject(keys, items) == Val("Object", 0, <<>>, FALSE, keys, items)
NoValue == Val("None", 0, <<>>, FALSE, <<>>, <<>>)

(***************************************************************************)
(* Parser                                                                  *)
(*                                                                         *)
(* The recursion of parse_val, parse_object and parse_array is kept as the *)
(* stack of the calls of parse_object and parse_array that have not        *)
(* returned.  A frame's pc is the place of its call in the function:       *)
(*   "first"  before the test for an immediate closing token,              *)
(*   "key"    before the key's self.next()        (objects),               *)
(*   "colon"  before the colon's self.next()      (objects),               *)
(*   "val"    before the call of parse_val,                                *)
(*   "sep"    before the peek for ',' or the closing token.                *)
(***************************************************************************)
NoToken == TPlain("None")

ErrExtra == "Extra tokens after valid JSON value"
ErrUnexpected == "Unexpected token"
ErrEnd == "Unexpected end of input"
ErrKey == "Expected string key in object"
ErrColon == "Expected ':' after key"
ErrObjSep == "Expected ',' or '}' after pair"
ErrArrSep == "Expected ',' or ']' after an array value"

Frame(kind, pc, keys, items, key) ==
    [kind |-> kind, pc |-> pc, keys |-> keys, items |-> items, key |-> key]

\* The underlying iterator has settled what the next token is (or that there is none).
Settled == pos < Len(iter) \/ iterDone

\* self.peek(): the next token, NoToken for None.
Peek == IF pos < Len(iter) THEN iter[pos + 1] ELSE NoToken

\* Mutant of Advance: the token is looked at and left in place.
AdvanceStay == pos

\* What self.next() does to the cursor: a token is consumed when there is one.
Advance == IF pos < Len(iter) THEN pos + 1 ELSE pos

Top == stack[Len(stack)]

\* The stack with its innermost frame replaced.
SetTop(stk, f) == [stk EXCEPT ![Len(stk)] = f]

\* The tokens parse_val turns into a value on their own.
IsScalar(tok) == tok.kind \in {"Number", "String", "Boolean", "Null"}

ScalarValue(tok) ==
    CASE tok.kind = "Number" -> VNumber(tok.n)
      [] tok.kind = "String" -> VString(tok.s)
      [] tok.kind = "Boolean" -> VBoolean(tok.b)
      [] tok.kind = "Null" -> VNull

\* Mutant of PushItem: the new pair or element goes to the front.
PushItemFront(f, v) ==
    IF f.kind = "Object"
    THEN [kind |-> "Object", pc |-> "sep", keys |-> <<f.key>> \o f.keys,
          items |-> <<v>> \o f.items, key |-> <<>>]
    ELSE [kind |-> "Array", pc |-> "sep", keys |-> <<>>,
          items |-> <<v>> \o f.items, key |-> <<>>]

\* kv_pairs.push((key, value)) / vals.push(value), then on to the separator.
PushItem(f, v) ==
    IF f.kind = "Object"
    THEN Frame("Object", "sep", Append(f.keys, f.key), Append(f.items, v), <<>>)
    ELSE Frame("Array", "sep", <<>>, Append(f.items, v), <<>>)

\* parse_val returns Ok(v) to its caller: the enclosing parse_object or
\* parse_array (the innermost frame of stk), or parse when there is none.
Return(stk, v) ==
    /\ stack' = IF stk = <<>> THEN stk ELSE SetTop(stk, PushItem(stk[Len(stk)], v))
    /\ value' = IF stk = <<>> THEN v ELSE value

\* The value a finished parse_object or parse_array returns.
Built(f) == IF f.kind = "Object" THEN VObject(f.keys, f.items) ELSE VArray(f.items)

\* The innermost call returns its value: its frame goes, its caller gets the value.
Close == Return(SubSeq(stack, 1, Len(stack) - 1), Built(Top))

\* A `return Err(msg)`, carried by `?` up through every caller to parse's caller.
Fail(msg) ==
    /\ pstatus' = "err"
    /\ error' = msg
    /\ UNCHANGED <<stack, value>>

\* Mutant of AfterComma: the loop tests for the closing '}' again.
AfterCommaFirst == "first"

\* The pc of parse_object's loop after a ',' is consumed.
AfterComma == "key"

\* Mutant of UnexpectedToken: the token is dropped and parse_val goes on.
UnexpectedTokenSkipped == UNCHANGED <<stack, value, pstatus, error>>

\* parse_val: the arm of any other token.
UnexpectedToken == Fail(ErrUnexpected)

\* A call of parse_val is about to run its self.next().
WantsValue ==
    \/ stack = <<>> /\ value = NoValue
    \/ stack # <<>> /\ Top.pc = "val"
    \/ stack # <<>> /\ Top.kind = "Array" /\ Top.pc = "first" /\ Peek # TRBracket

\* parse_val: the match on self.next().
ParseVal ==
    /\ pstatus = "running"
    /\ Settled
    /\ WantsValue
    /\ pos' = Advance
    /\ LET tok == Peek IN
       CASE tok = NoToken -> Fail(ErrEnd)
         [] IsScalar(tok) ->
              /\ Return(stack, ScalarValue(tok))
              /\ UNCHANGED <<pstatus, error>>
         [] tok \in {TLBraces, TLBracket} ->
              /\ stack' = Append(stack,
                     Frame(IF tok = TLBraces THEN "Object" ELSE "Array",
                           "first", <<>>, <<>>, <<>>))
              /\ UNCHANGED <<value, pstatus, error>>
         [] OTHER -> UnexpectedToken
    /\ UNCHANGED <<iter, iterDone, lexVars, tree>>

\* parse_object, parse_array: the closing token comes at once; the empty container.
ParseEmpty ==
    /\ pstatus = "running"
    /\ Settled
    /\ stack # <<>>
    /\ Top.pc = "first"
    /\ Peek = (IF Top.kind = "Object" THEN TRBraces ELSE TRBracket)
    /\ pos' = pos + 1
    /\ Close
    /\ UNCHANGED <<pstatus, error, iter, iterDone, lexVars, tree>>

\* parse_object: the key.
ObjectKey ==
    /\ pstatus = "running"
    /\ Settled
    /\ stack # <<>>
    /\ Top.kind = "Object"
    /\ \/ Top.pc = "key"
       \/ Top.pc = "first" /\ Peek # TRBraces
    /\ pos' = Advance
    /\ IF Peek.kind = "String"
       THEN /\ stack' = SetTop(stack, [Top EXCEPT !.pc = "colon", !.key = Peek.s])
            /\ UNCHANGED <<value, pstatus, error>>
       ELSE Fail(ErrKey)
    /\ UNCHANGED <<iter, iterDone, lexVars, tree>>

\* parse_object: the colon.
ObjectColon ==
    /\ pstatus = "running"
    /\ Settled
    /\ stack # <<>>
    /\ Top.kind = "Object"
    /\ Top.pc = "colon"
    /\ pos' = Advance
    /\ IF Peek = TColon
       THEN /\ stack' = SetTop(stack, [Top EXCEPT !.pc = "val"])
            /\ UNCHANGED <<value, pstatus, error>>
       ELSE Fail(ErrColon)
    /\ UNCHANGED <<iter, iterDone, lexVars, tree>>

\* parse_object: the match on self.peek() after a pair.
ObjectSep ==
    /\ pstatus = "running"
    /\ Settled
    /\ stack # <<>>
    /\ Top.kind = "Object"
    /\ Top.pc = "sep"
    /\ CASE Peek = TComma ->
              /\ pos' = pos + 1
              /\ stack' = SetTop(stack, [Top EXCEPT !.pc = AfterComma])
              /\ UNCHANGED <<value, pstatus, error>>
         [] Peek = TRBraces ->
              /\ pos' = pos + 1
              /\ Close
              /\ UNCHANGED <<pstatus, error>>
         [] OTHER ->
              /\ pos' = pos
              /\ Fail(ErrObjSep)
    /\ UNCHANGED <<iter, iterDone, lexVars, tree>>

\* parse_array: the match on self.peek() after an element.
ArraySep ==
    /\ pstatus = "running"
    /\ Settled
    /\ stack # <<>>
    /\ Top.kind = "Array"
    /\ Top.pc = "sep"
    /\ CASE Peek = TComma ->
              /\ pos' = pos + 1
              /\ stack' = SetTop(stack, [Top EXCEPT !.pc = "val"])
              /\ UNCHANGED <<value, pstatus, error>>
         [] Peek = TRBracket ->
              /\ pos' = pos + 1
              /\ Close
              /\ UNCHANGED <<pstatus, error>>
         [] OTHER ->
              /\ pos' = pos
              /\ Fail(ErrArrSep)
    /\ UNCHANGED <<iter, iterDone, lexVars, tree>>

\* Mutant of ExtraTokens: the rest of the tokens is not looked at.
ExtraTokensIgnored == FALSE

\* After parse_val, parse's own test: is a token left?
ExtraTokens == Peek # NoToken

\* parse: parse_val has returned Ok(value).
ParseEnd ==
    /\ pstatus = "running"
    /\ Settled
    /\ stack = <<>>
    /\ value # NoValue
    /\ IF ExtraTokens
       THEN /\ pstatus' = "err"
            /\ error' = ErrExtra
       ELSE /\ pstatus' = "ok"
            /\ error' = error
    /\ UNCHANGED <<pos, stack, value, iter, iterDone, lexVars, tree>>

ParserNext ==
    ParseVal \/ ParseEmpty \/ ObjectKey \/ ObjectColon \/ ObjectSep \/ ArraySep \/ ParseEnd

\* What parse returns to its caller: Ok(value) or Err(error), never both.
Result ==
    CASE pstatus = "ok" -> [ok |-> TRUE, val |-> value, err |-> ""]
      [] pstatus = "err" -> [ok |-> FALSE, val |-> NoValue, err |-> error]
      [] OTHER -> [ok |-> FALSE, val |-> NoValue, err |-> ""]

(***************************************************************************)
(* Spec: Lexer::tokenize on a text.  The texts are the concatenations of   *)
(* at most MaxFrags fragments.                                             *)
(***************************************************************************)
Fragments ==
    { <<Quote>>, <<"a">>, <<" ">>, <<"t">>, <<"0">>, <<"7">>, <<",">>, <<"-">>, <<"#">>,
      <<"t", "r", "u", "e">>,
      <<"f", "a", "l", "s", "e">>,
      <<"n", "u", "l", "l">>,
      <<"2", "1", "4", "7", "4", "8", "3", "6", "4", "7">> }

RECURSIVE Texts(_)
Texts(k) ==
    IF k = 0 THEN {<<>>}
    ELSE LET shorter == Texts(k - 1)
         IN  shorter \cup {t \o f : t \in shorter, f \in Fragments}

ParserIdle ==
    /\ iter = <<>>
    /\ iterDone = FALSE
    /\ pos = 0
    /\ stack = <<>>
    /\ value = NoValue
    /\ pstatus = "idle"
    /\ error = ""

\* Lexer::new(input)
Init ==
    /\ input \in Texts(MaxFrags)
    /\ cpos = 0
    /\ tokens = <<>>
    /\ lstatus = "scanning"
    /\ overflowChecks \in BOOLEAN
    /\ ParserIdle
    /\ tree = NoValue

Next == LexNext

Spec == Init /\ [][Next]_vars

(***************************************************************************)
(* SpecParser: Parser::parse on the tokens of an arbitrary iterator, which *)
(* yields at most MaxTokens tokens of TokenAlphabet, one when the parser   *)
(* asks for it (Peekable pulls a token only to peek at it or to hand it    *)
(* out).                                                                   *)
(***************************************************************************)
TokenAlphabet ==
    { TNumber(1), TString(<<"a">>), TBoolean(TRUE), TNull,
      TLBraces, TRBraces, TLBracket, TRBracket, TColon, TComma,
      TPlain("Plus"), TPlain("Minus"), TPlain("Multiply"), TPlain("Divide"),
      TPlain("LParenthesis"), TUnknown("#") }

\* The underlying iterator's next(): a token, or None for good.
IterYield ==
    /\ pstatus = "running"
    /\ ~Settled
    /\ \/ /\ Len(iter) < MaxTokens
          /\ \E tok \in TokenAlphabet : iter' = Append(iter, tok)
          /\ UNCHANGED iterDone
       \/ /\ iterDone' = TRUE
          /\ UNCHANGED iter
    /\ UNCHANGED <<pos, stack, value, pstatus, error, lexVars, tree>>

\* Parser::new(iter)
InitParser ==
    /\ input = <<>>
    /\ cpos = 0
    /\ tokens = <<>>
    /\ lstatus = "idle"
    /\ overflowChecks = FALSE
    /\ iter = <<>>
    /\ iterDone = FALSE
    /\ pos = 0
    /\ stack = <<>>
    /\ value = NoValue
    /\ pstatus = "running"
    /\ error = ""
    /\ tree = NoValue

NextParser == IterYield \/ ParserNext

SpecParser == InitParser /\ [][NextParser]_vars

\* parse is one synchronous call and the iterator answers every request: a step
\* that can be taken is taken.
SpecParserLive == SpecParser /\ WF_vars(NextParser)

(***************************************************************************)
(* SpecMain: main.  The text is the textual form of a value tree of at     *)
(* most MaxNodes nodes, written compactly or with a space after each ','   *)
(* and ':', or the compact form without its first or its last character.   *)
(***************************************************************************)
DigitChar(d) ==
    CASE d = 0 -> "0" [] d = 1 -> "1" [] d = 2 -> "2" [] d = 3 -> "3" [] d = 4 -> "4"
      [] d = 5 -> "5" [] d = 6 -> "6" [] d = 7 -> "7" [] d = 8 -> "8" [] d = 9 -> "9"

\* The decimal digits of n >= 0, without leading zeros.
RECURSIVE Decimal(_)
Decimal(n) ==
    IF n < 10 THEN <<DigitChar(n)>>
    ELSE Append(Decimal(n \div 10), DigitChar(n % 10))

\* The textual form of a value in the grammar; sp follows each ',' and ':'.
RECURSIVE Render(_, _), RenderItems(_, _, _)
Render(v, sp) ==
    CASE v.tag = "Number" -> Decimal(v.n)
      [] v.tag = "String" -> <<Quote>> \o v.s \o <<Quote>>
      [] v.tag = "Boolean" ->
           IF v.b THEN <<"t", "r", "u", "e">> ELSE <<"f", "a", "l", "s", "e">>
      [] v.tag = "Null" -> <<"n", "u", "l", "l">>
      [] v.tag = "Array" -> <<"[">> \o RenderItems(v, 1, sp) \o <<"]">>
      [] v.tag = "Object" -> <<"{">> \o RenderItems(v, 1, sp) \o <<"}">>

RenderItems(v, i, sp) ==
    IF i > Len(v.items) THEN <<>>
    ELSE (IF i > 1 THEN <<",">> \o sp ELSE <<>>)
         \o (IF v.tag = "Object"
             THEN <<Quote>> \o v.keys[i] \o <<Quote, ":">> \o sp
             ELSE <<>>)
         \o Render(v.items[i], sp)
         \o RenderItems(v, i + 1, sp)

Leaves ==
    { VNumber(0), VNumber(I32Max), VString(<<"a", ",">>),
      VBoolean(TRUE), VBoolean(FALSE), VNull }

Key == <<"a">>

\* The value trees of exactly k nodes, and the sequences of trees of m nodes in all.
RECURSIVE TreesOfSize(_), ForestsOfSize(_)
TreesOfSize(k) ==
    (IF k = 1 THEN Leaves ELSE {})
    \cup {VArray(f) : f \in ForestsOfSize(k - 1)}
    \cup {VObject([i \in 1..Len(f) |-> Key], f) : f \in ForestsOfSize(k - 1)}

ForestsOfSize(m) ==
    IF m = 0 THEN {<<>>}
    ELSE UNION { {<<t>> \o f : t \in TreesOfSize(j), f \in ForestsOfSize(m - j)} : j \in 1..m }

Trees == UNION {TreesOfSize(k) : k \in 1..MaxNodes}

MainTexts(t) ==
    LET compact == Render(t, <<>>)
    IN  {compact, Render(t, <<" ">>), Tail(compact), SubSeq(compact, 1, Len(compact) - 1)}

\* main: Lexer::new(&input)
InitMain ==
    /\ tree \in Trees
    /\ input \in MainTexts(tree)
    /\ cpos = 0
    /\ tokens = <<>>
    /\ lstatus = "scanning"
    /\ overflowChecks \in BOOLEAN
    /\ ParserIdle

\* main: Parser::new(tokens.into_iter()) and the call of parse.
MainParse ==
    /\ lstatus = "returned"
    /\ pstatus = "idle"
    /\ iter' = tokens
    /\ iterDone' = TRUE
    /\ pstatus' = "running"
    /\ UNCHANGED <<pos, stack, value, error, lexVars, tree>>

NextMain == LexNext \/ MainParse \/ ParserNext

SpecMain == InitMain /\ [][NextMain]_vars

(***************************************************************************)
(* Properties of Lexer::tokenize (Spec)                                    *)
(***************************************************************************)
AllDigits(chars) == chars # <<>> /\ \A i \in DOMAIN chars : IsDigit(chars[i])

\* A digit string without its leading zeros (its last digit always stays).
RECURSIVE StripZeros(_)
StripZeros(chars) ==
    IF Len(chars) > 1 /\ chars[1] = "0" THEN StripZeros(Tail(chars)) ELSE chars

QuoteCount(chars) == Cardinality({i \in DOMAIN chars : chars[i] = Quote})

\* Quotes open and close strings in turn, whatever stands between them: a text
\* has an opening quote without a closing one when its quotes are odd in number.
Unterminated(chars) == QuoteCount(chars) % 2 = 1

\* The place of the opening quote of the unterminated string.
LastQuote(chars) ==
    CHOOSE i \in DOMAIN chars :
        chars[i] = Quote /\ \A j \in DOMAIN chars : chars[j] = Quote => j <= i

CountOf(ts, tok) == Cardinality({i \in DOMAIN ts : ts[i] = tok})
CountKind(ts, kind) == Cardinality({i \in DOMAIN ts : ts[i].kind = kind})

\* C2: tokenize never fails: on every text it returns a token sequence and never
\* panics or aborts.
C2_TokenizeNeverFails == lstatus # "panicked"

\* C3: tokenizing a digit string gives exactly one Number token, whose value is the
\* non-negative integer the digits denote in base 10; no Number token is negative.
C3_DigitStringValue ==
    /\ (lstatus = "returned" /\ AllDigits(input)) =>
          /\ Len(tokens) = 1
          /\ tokens[1].kind = "Number"
          /\ tokens[1].n >= 0
          /\ Decimal(tokens[1].n) = StripZeros(input)
    /\ \A i \in DOMAIN tokens : tokens[i].kind = "Number" => tokens[i].n >= 0

\* C4: when tokenize returns on a text with an opening quote that is never closed,
\* the result holds exactly one Unknown('"') token, as its last token; the
\* characters after the opening quote give no token (the result is that of the text
\* cut after the opening quote); and every String token stands for a closed pair of
\* quotes, so none carries the partial content.
C4_UnterminatedString ==
    (lstatus = "returned" /\ Unterminated(input)) =>
        /\ tokens # <<>>
        /\ tokens[Len(tokens)] = TUnknown(Quote)
        /\ CountOf(tokens, TUnknown(Quote)) = 1
        /\ CountKind(tokens, "String") = (QuoteCount(input) - 1) \div 2
        /\ tokens = Tokenize(SubSeq(input, 1, LastQuote(input)), 0, <<>>, overflowChecks).tokens

\* C4's case: a token before the unterminated string, a keyword after its quote.
C4_Witness ==
    /\ lstatus = "returned"
    /\ Unterminated(input)
    /\ LastQuote(input) + 4 = Len(input)
    /\ SubSeq(input, LastQuote(input) + 1, Len(input)) = <<"n", "u", "l", "l">>
    /\ tokens = <<TNumber(7), TUnknown(Quote)>>

\* C5 as stated: on a text with an unterminated string the returned token sequence
\* is exactly [Unknown('"')], whatever precedes the string.
C5_Original ==
    (lstatus = "returned" /\ Unterminated(input)) => tokens = <<TUnknown(Quote)>>

\* C5 as amended: on a text with an unterminated string the returned token sequence
\* is the tokens of the text before the opening quote, all kept and in order,
\* followed by Unknown('"').
C5_TokensSoFarKept ==
    (lstatus = "returned" /\ Unterminated(input)) =>
        tokens = Tokenize(SubSeq(input, 1, LastQuote(input) - 1), 0, <<>>, overflowChecks).tokens
                 \o <<TUnknown(Quote)>>

\* C5's case: an unterminated string with tokens before it.
C5_Witness ==
    /\ lstatus = "returned"
    /\ Unterminated(input)
    /\ Len(tokens) = 3
    /\ tokens[1] = TNumber(7)
    /\ tokens[2] = TComma

\* The last character of the maximal run of ASCII letters that starts at place q.
RunEnd(chars, q) ==
    CHOOSE e \in q..Len(chars) :
        /\ \A i \in q..e : IsAsciiAlphabetic(chars[i])
        /\ e < Len(chars) => ~IsAsciiAlphabetic(chars[e + 1])

\* The token the claim gives a word.
WordToken(word) ==
    IF word = <<"t", "r", "u", "e">> THEN TBoolean(TRUE)
    ELSE IF word = <<"f", "a", "l", "s", "e">> THEN TBoolean(FALSE)
    ELSE IF word = <<"n", "u", "l", "l">> THEN TNull
    ELSE TUnknown(word[1])

\* C6: when the scanner, between two tokens, meets 't', 'f' or 'n', its next step
\* consumes the maximal run of ASCII letters from there and nothing more, and adds
\* one token: Boolean or Null when the run is exactly true, false or null, and
\* Unknown(first character) otherwise.
C6_Keyword ==
    [][ (lstatus = "scanning" /\ NextChar(input, cpos) \in KeywordStart) =>
          LET q == SkipWhitespace(input, cpos) + 1
              e == RunEnd(input, q)
          IN  /\ cpos' = e
              /\ tokens' = Append(tokens, WordToken(SubSeq(input, q, e)))
              /\ lstatus' = "scanning" ]_vars

\* C6's case: a keyword that goes on as a longer word gives the one token Unknown.
C6_Witness ==
    /\ lstatus = "returned"
    /\ Len(input) = 5
    /\ SubSeq(input, 1, 4) = <<"t", "r", "u", "e">>
    /\ tokens = <<TUnknown("t")>>

(***************************************************************************)
(* Properties of Parser::parse (SpecParser)                                *)
(***************************************************************************)
Returned == pstatus \in {"ok", "err"}

\* C1: parse returns a value only when the whole token sequence is one value: if
\* the top-level parse_val has succeeded and a token is left, parse returns the
\* "Extra tokens after valid JSON value" error and not the value.
C1_ExtraTokens ==
    /\ pstatus = "ok" => (iterDone /\ pos = Len(iter) /\ Result.val # NoValue)
    /\ (Returned /\ stack = <<>> /\ value # NoValue /\ pos < Len(iter)) =>
          Result = [ok |-> FALSE, val |-> NoValue, err |-> ErrExtra]

\* C1's case: the tokens of '1 2'.
C1_Witness ==
    /\ pstatus = "err"
    /\ error = ErrExtra
    /\ iter = <<TNumber(1), TNumber(1)>>
    /\ value = VNumber(1)

\* A ',' at place i with the closing '}' or ']' right after it.
TrailingCommaAt(ts, i) ==
    /\ i + 1 <= Len(ts)
    /\ ts[i] = TComma
    /\ ts[i + 1] \in {TRBraces, TRBracket}

\* C7: a trailing comma is never accepted: parse returns no value for a token
\* sequence with a ',' right before a closing '}' or ']', at any depth, and it has
\* failed as soon as it has met the closing token.
C7_TrailingComma ==
    /\ pstatus = "ok" => ~\E i \in DOMAIN iter : TrailingCommaAt(iter, i)
    /\ (\E i \in 1..pos : TrailingCommaAt(iter, i) /\ i + 1 <= pos) => pstatus = "err"

\* C7's case: '{"a":[1,]' - the trailing comma of an array inside an object.
C7_Witness ==
    /\ pstatus = "err"
    /\ error = ErrUnexpected
    /\ iter = <<TLBraces, TString(<<"a">>), TColon, TLBracket, TNumber(1), TComma, TRBracket>>

Operators == {TPlain("Plus"), TPlain("Minus"), TPlain("Multiply"), TPlain("Divide")}

HasOperator(ts) == \E i \in DOMAIN ts : ts[i] \in Operators

\* C10 as stated: for a token sequence that holds an arithmetic operator parse
\* returns an error, and that error is the unexpected-token error.
C10_Original ==
    (Returned /\ HasOperator(iter)) => (pstatus = "err" /\ error = ErrUnexpected)

\* C10 as amended: for a token sequence that holds an arithmetic operator parse
\* returns an error and never a value; the parse fails at the first operator, with
\* the error of what was expected there: the unexpected-token error for a value,
\* else the string-key, colon, separator or extra-tokens error.
C10_OperatorRejected ==
    (Returned /\ HasOperator(iter)) =>
        /\ pstatus = "err"
        /\ Result.val = NoValue
        /\ error \in {ErrUnexpected, ErrKey, ErrColon, ErrObjSep, ErrArrSep, ErrExtra}
        /\ iter[Len(iter)] \in Operators
        /\ \A i \in 1..(Len(iter) - 1) : iter[i] \notin Operators
        /\ error = ErrUnexpected <=>
              \/ Len(iter) = 1
              \/ Len(iter) > 1 /\ iter[Len(iter) - 1] \in {TLBracket, TColon}
              \/ Len(iter) > 1 /\ iter[Len(iter) - 1] = TComma /\ Top.kind = "Array"

\* C10's case: an operator where a key is expected, and so another error.
C10_Witness ==
    /\ pstatus = "err"
    /\ error = ErrKey
    /\ iter = <<TLBraces, TString(<<"a">>), TColon, TNumber(1), TComma, TPlain("Minus")>>

Unedited == input \in {Render(tree, <<>>), Render(tree, <<" ">>)}

\* C8: round trip: the textual form of a value tree is tokenized without a panic
\* and parsed without an error, and the value parse returns is the tree: the same
\* pairs and elements, in the same order, duplicate keys kept.
C8_RoundTrip ==
    Unedited =>
        /\ lstatus # "panicked"
        /\ pstatus # "err"
        /\ pstatus = "ok" => Result.val = tree

\* C8's case: an object of two pairs with the same key and different values, one of
\* them the largest i32, written with spaces, has come back from parse.
C8_Witness ==
    /\ pstatus = "ok"
    /\ input = Render(tree, <<" ">>)
    /\ tree.tag = "Object"
    /\ Len(tree.items) = 2
    /\ tree.keys[1] = tree.keys[2]
    /\ tree.items[1] = VNumber(I32Max)
    /\ tree.items[2] = VString(<<"a", ",">>)
    /\ Result.val = tree

====
